---- MODULE Spec2Model ----
(***************************************************************************)
(* The asynchronous ingestion pipeline of ai-data-platform: the document   *)
(* repository and its status state machine, the broker-backed job queue    *)
(* (main / processing / dead-letter lists), the ingest and upload          *)
(* services, the document processor, the worker loop and the stale-job     *)
(* sweep.                                                                   *)
(*                                                                         *)
(* Conventions.  A broker list is a sequence whose index 1 is the list's   *)
(* head (Redis' left end): LPUSH prepends, RPUSH appends, BRPOPLPUSH takes *)
(* the last element of its source and prepends it to its destination.      *)
(* A queue entry stands for its JSON bytes: two entries are the same bytes *)
(* iff they are the same record.  Time is kept as the age of every         *)
(* started_at stamp (now - started_at), counted in clock ticks and         *)
(* saturating at the visibility timeout, which is all the code compares.   *)
(***************************************************************************)
EXTENDS Integers, Sequences, FiniteSets, TLC

\* ------------------------------------------------------------ constants

MAX_RETRIES == 3

\* settings.QUEUE_MAX_LENGTH, here configured small (it is read from the environment)
QUEUE_MAX_LENGTH == 2

\* clock ticks in one visibility timeout (max_age_seconds)
TicksPerTimeout == 1

\* the dead-letter list is write-only for this program; the model stops
\* growing it at this length
MaxDLQ == 2

PENDING == "PENDING"
PROCESSING == "PROCESSING"
DONE == "DONE"
FAILED == "FAILED"
DocumentStatus == {PENDING, PROCESSING, DONE, FAILED}

DocIds == {1, 2}
Sources == {"s1", "s2"}
NoSource == "-"
NoStatus == "-"
NoPath == 0
NoOne == "-"

\* ------------------------------------------------------------ documents

\* a slot of the documents table that holds no row
NoRow ==
  [source |-> NoSource, committed |-> FALSE, status |-> NoStatus,
   retry_count |-> 0, file_path |-> NoPath]

\* Document(source=source, status=PENDING), retry_count default 0, file_path NULL
NewDocument(source) ==
  [source |-> source, committed |-> FALSE, status |-> PENDING,
   retry_count |-> 0, file_path |-> NoPath]

\* the path FileStore.save_file gives the upload of document id: one file per document
PathOf(id) == id

update_status_outcome_done_not_terminal(row, target) ==
  IF row.source = NoSource THEN "DocumentNotFound"
  ELSE IF row.status = FAILED /\ target = PENDING /\ row.retry_count >= MAX_RETRIES
    THEN "MaxRetriesExceeded"
  ELSE IF row.status = FAILED /\ target # PENDING THEN "InvalidStateTransition"
  ELSE IF row.status = PENDING /\ target = DONE THEN "InvalidStateTransition"
  ELSE "ok"

\* the checks of DocumentRepository.update_status, in the code's order
update_status_outcome(row, target) ==
  IF row.source = NoSource THEN "DocumentNotFound"
  ELSE IF row.status = DONE THEN "InvalidStateTransition"
  ELSE IF row.status = FAILED /\ target = PENDING /\ row.retry_count >= MAX_RETRIES
    THEN "MaxRetriesExceeded"
  ELSE IF row.status = FAILED /\ target # PENDING THEN "InvalidStateTransition"
  ELSE IF row.status = PENDING /\ target = DONE THEN "InvalidStateTransition"
  ELSE "ok"

update_status_writes_before_check(row, target) ==
  IF row.source = NoSource THEN row ELSE [row EXCEPT !.status = target]

\* update_status: the row is written only when every check has passed
update_status(row, target) ==
  IF update_status_outcome(row, target) = "ok"
    THEN [row EXCEPT !.status = target]
    ELSE row

RetriesExhausted_off_by_one(row) == row.retry_count > MAX_RETRIES

\* the guard of retry_document on the retry budget
RetriesExhausted(row) == row.retry_count >= MAX_RETRIES

retry_document_outcome_any_status(row) ==
  IF row.source = NoSource THEN "DocumentNotFound"
  ELSE IF RetriesExhausted(row) THEN "MaxRetriesExceeded"
  ELSE "ok"

\* the checks of DocumentRepository.retry_document, in the code's order
retry_document_outcome(row) ==
  IF row.source = NoSource THEN "DocumentNotFound"
  ELSE IF row.status # FAILED THEN "InvalidStateTransition"
  ELSE IF RetriesExhausted(row) THEN "MaxRetriesExceeded"
  ELSE "ok"

retry_document(row) ==
  IF retry_document_outcome(row) = "ok"
    THEN [row EXCEPT !.retry_count = @ + 1, !.status = PENDING]
    ELSE row

update_file_path(row, path) ==
  IF row.source = NoSource THEN row ELSE [row EXCEPT !.file_path = path]

clear_file_path_resets_retry_count(row) ==
  IF row.source = NoSource THEN row
  ELSE [row EXCEPT !.file_path = NoPath, !.retry_count = 0]

\* clear_file_path: document.file_path = None
clear_file_path(row) ==
  IF row.source = NoSource THEN row ELSE [row EXCEPT !.file_path = NoPath]

\* ------------------------------------------------------------ state

VARIABLES
  db,          \* the documents table: id -> row (NoRow where no row is)
  lock,        \* id -> the session holding the row lock, or NoOne
  disk,        \* ids whose uploaded file is on disk
  index,       \* ids with points in the vector index
  main,        \* MAIN_QUEUE
  processing,  \* PROCESSING_QUEUE
  dlq,         \* DEAD_LETTER_QUEUE
  retry,       \* id -> value of the key retry:{id} (0: no key)
  ing,         \* ingest request -> its position and locals
  upl,         \* upload request -> its position and locals
  wrk,         \* worker -> its position and locals
  swp,         \* sweep runner -> its position and locals
  call,        \* the last repository call made directly, with its outcome
  drv          \* a direct caller of the queue: what it called and what it got back

vars == <<db, lock, disk, index, main, processing, dlq, retry, ing, upl, wrk, swp, call, drv>>

sysvars == <<lock, disk, index, main, processing, dlq, retry, ing, upl, wrk, swp, drv>>

NoCall == [op |-> "-", id |-> 0, target |-> "-", before |-> "-", outcome |-> "-"]

\* ------------------------------------------------------------ broker lists

NoTs == 0 - 1
NoRc == 0 - 1

\* json.dumps({"document_id": str(document_id)})
FreshEntry(id) == [doc |-> id, started |-> NoTs, rc |-> NoRc]

NoEntry == [doc |-> 0, started |-> NoTs, rc |-> NoRc]

LPUSH(list, x) == <<x>> \o list

RPUSH(list, x) == Append(list, x)

\* LREM list 1 x: drop the first occurrence of x, counted from the head
RECURSIVE LREM(_, _)
LREM(list, x) ==
  IF list = <<>> THEN <<>>
  ELSE IF Head(list) = x THEN Tail(list)
  ELSE <<Head(list)>> \o LREM(Tail(list), x)

Contains(list, x) == \E k \in 1..Len(list) : list[k] = x

Last(list) == list[Len(list)]

Front(list) == SubSeq(list, 1, Len(list) - 1)

\* ------------------------------------------------------------ actors

IngestReqs == {"i1", "i2"}
UploadReqs == {"u1"}
Workers == {"w1", "w2"}
\* the processes that run requeue_stale_jobs
Sweepers == {"sw1", "sw2"}

\* the source each ingest request carries
SourceOf(c) == "s1"

\* err: the exception process_job is handling; running: self.running
IdleWorker ==
  [pc |-> "idle", raw |-> NoEntry, fp |-> NoPath, mfp |-> NoPath, err |-> "-",
   running |-> TRUE]

IdleSweep == [pc |-> "idle", items |-> <<>>, cur |-> NoEntry]

\* no direct caller of the queue: main0, processing0, dlq0 are the lists as the
\* caller found them, enq and deq the ids it enqueued and was handed, raw the
\* payload of its last dequeue, acked the acknowledges that removed an entry
NoDriver ==
  [pc |-> "-", main0 |-> <<>>, processing0 |-> <<>>, dlq0 |-> <<>>,
   enq |-> <<>>, deq |-> <<>>, raw |-> NoEntry, acked |-> 0]

Init ==
  /\ db = [i \in DocIds |-> NoRow]
  /\ lock = [i \in DocIds |-> NoOne]
  /\ disk = {}
  /\ index = {}
  /\ main = <<>>
  /\ processing = <<>>
  /\ dlq = <<>>
  /\ retry = [i \in DocIds |-> 0]
  /\ ing = [c \in IngestReqs |-> [pc |-> "start", doc |-> 0, ret |-> "-"]]
  /\ upl = [u \in UploadReqs |-> [pc |-> "start", target |-> 0, ret |-> "-"]]
  /\ wrk = [w \in Workers |-> IdleWorker]
  /\ swp = [s \in Sweepers |-> IdleSweep]
  /\ call = NoCall
  /\ drv = NoDriver

CanLock_without_for_update(id) == TRUE

\* the row lock of SELECT ... FOR UPDATE can be taken: no other session holds it
CanLock(id) == lock[id] = NoOne

\* ------------------------------------------------------------ repository calls
\* Each action is one call of a DocumentRepository method in a transaction of
\* its own, made by any caller of the repository.

SourceTaken_no_unique_index(s) == FALSE

\* the unique index on documents.source: a row with this source is in the table
SourceTaken(s) == \E i \in DocIds : db[i].source = s

IdOfSource(s) == CHOOSE i \in DocIds : db[i].source = s

FreeIds == {i \in DocIds : db[i] = NoRow}

\* the id the server assigns to the next row
NextId == CHOOSE i \in FreeIds : \A j \in FreeIds : i <= j

Repo_create_document(s) ==
  /\ FreeIds # {}
  /\ IF SourceTaken(s)
       THEN /\ call' = [op |-> "create_document", id |-> IdOfSource(s), target |-> "-",
                        before |-> db[IdOfSource(s)].status, outcome |-> "IntegrityError"]
            /\ db' = db
       ELSE /\ call' = [op |-> "create_document", id |-> NextId, target |-> "-",
                        before |-> NoStatus, outcome |-> "ok"]
            /\ db' = [db EXCEPT ![NextId] = [NewDocument(s) EXCEPT !.committed = TRUE]]
  /\ UNCHANGED sysvars

Repo_update_status(id, target) ==
  /\ CanLock(id)
  /\ call' = [op |-> "update_status", id |-> id, target |-> target,
              before |-> db[id].status, outcome |-> update_status_outcome(db[id], target)]
  /\ db' = [db EXCEPT ![id] = update_status(db[id], target)]
  /\ UNCHANGED sysvars

Repo_retry_document(id) ==
  /\ CanLock(id)
  /\ call' = [op |-> "retry_document", id |-> id, target |-> PENDING,
              before |-> db[id].status, outcome |-> retry_document_outcome(db[id])]
  /\ db' = [db EXCEPT ![id] = retry_document(db[id])]
  /\ UNCHANGED sysvars

Repo_update_file_path(id) ==
  /\ call' = [op |-> "update_file_path", id |-> id, target |-> "-",
              before |-> db[id].status,
              outcome |-> IF db[id] = NoRow THEN "DocumentNotFound" ELSE "ok"]
  /\ db' = [db EXCEPT ![id] = update_file_path(db[id], PathOf(id))]
  /\ UNCHANGED sysvars

Repo_clear_file_path(id) ==
  /\ call' = [op |-> "clear_file_path", id |-> id, target |-> "-",
              before |-> db[id].status,
              outcome |-> IF db[id] = NoRow THEN "DocumentNotFound" ELSE "ok"]
  /\ db' = [db EXCEPT ![id] = clear_file_path(db[id])]
  /\ UNCHANGED sysvars

RepoNext ==
  \/ \E s \in Sources : Repo_create_document(s)
  \/ \E id \in DocIds, target \in DocumentStatus : Repo_update_status(id, target)
  \/ \E id \in DocIds : Repo_retry_document(id)
  \/ \E id \in DocIds : Repo_update_file_path(id)
  \/ \E id \in DocIds : Repo_clear_file_path(id)

\* every sequence of repository calls
SpecRepo == Init /\ [][RepoNext]_vars

\* ------------------------------------------------------------ IngestService.ingest

\* a row other sessions can read: it exists and its insert is committed
Visible(id) == db[id].source # NoSource /\ db[id].committed

IngestBackpressure_off_by_one(c) ==
  /\ ing[c].pc = "start"
  /\ ing' = [ing EXCEPT ![c] =
       IF Len(main) > QUEUE_MAX_LENGTH
         THEN [pc |-> "done", doc |-> 0, ret |-> "QueueFull"]
         ELSE [@ EXCEPT !.pc = "create"]]
  /\ UNCHANGED <<db, lock, disk, index, main, processing, dlq, retry, upl, wrk, swp, call, drv>>

\* 1. backpressure check
IngestBackpressure(c) ==
  /\ ing[c].pc = "start"
  /\ ing' = [ing EXCEPT ![c] =
       IF Len(main) >= QUEUE_MAX_LENGTH
         THEN [pc |-> "done", doc |-> 0, ret |-> "QueueFull"]
         ELSE [@ EXCEPT !.pc = "create"]]
  /\ UNCHANGED <<db, lock, disk, index, main, processing, dlq, retry, upl, wrk, swp, call, drv>>

IngestCreate_enqueue_in_transaction(c) ==
  /\ ing[c].pc = "create"
  /\ ~SourceTaken(SourceOf(c))
  /\ FreeIds # {}
  /\ db' = [db EXCEPT ![NextId] = NewDocument(SourceOf(c))]
  /\ ing' = [ing EXCEPT ![c] = [@ EXCEPT !.pc = "enqueue", !.doc = NextId]]
  /\ UNCHANGED <<lock, disk, index, main, processing, dlq, retry, upl, wrk, swp, call, drv>>

\* 2. create_document inside session.begin(): the INSERT is flushed.  An INSERT
\* of a source whose row is not yet committed waits for that transaction; of a
\* committed source it raises IntegrityError, and the existing row is returned.
IngestCreate(c) ==
  /\ ing[c].pc = "create"
  /\ IF SourceTaken(SourceOf(c))
       THEN /\ db[IdOfSource(SourceOf(c))].committed
            /\ ing' = [ing EXCEPT ![c] =
                 [pc |-> "done", doc |-> IdOfSource(SourceOf(c)), ret |-> "existing"]]
            /\ db' = db
       ELSE /\ FreeIds # {}
            /\ db' = [db EXCEPT ![NextId] = NewDocument(SourceOf(c))]
            /\ ing' = [ing EXCEPT ![c] = [@ EXCEPT !.pc = "commit", !.doc = NextId]]
  /\ UNCHANGED <<lock, disk, index, main, processing, dlq, retry, upl, wrk, swp, call, drv>>

\* the end of the session.begin() block: the row is committed
IngestCommit(c) ==
  /\ ing[c].pc = "commit"
  /\ db' = [db EXCEPT ![ing[c].doc].committed = TRUE]
  /\ ing' = [ing EXCEPT ![c].pc = "enqueue"]
  /\ UNCHANGED <<lock, disk, index, main, processing, dlq, retry, upl, wrk, swp, call, drv>>

\* 3. queue.enqueue(doc.id): RPUSH MAIN_QUEUE
IngestEnqueue(c) ==
  /\ ing[c].pc = "enqueue"
  /\ main' = RPUSH(main, FreshEntry(ing[c].doc))
  /\ ing' = [ing EXCEPT ![c] = [@ EXCEPT !.pc = "done", !.ret = "created"]]
  /\ UNCHANGED <<db, lock, disk, index, processing, dlq, retry, upl, wrk, swp, call, drv>>

\* the broker rejects the write: enqueue raises
IngestEnqueueFails(c) ==
  /\ ing[c].pc = "enqueue"
  /\ ing' = [ing EXCEPT ![c].pc = "compensate"]
  /\ UNCHANGED <<db, lock, disk, index, main, processing, dlq, retry, upl, wrk, swp, call, drv>>

\* 4. a new transaction: update_status(doc.id, FAILED); then InfraError is raised
IngestCompensate(c) ==
  /\ ing[c].pc = "compensate"
  /\ lock[ing[c].doc] = NoOne
  /\ db' = [db EXCEPT ![ing[c].doc] = update_status(@, FAILED)]
  /\ ing' = [ing EXCEPT ![c] = [@ EXCEPT !.pc = "done", !.ret = "InfraError"]]
  /\ UNCHANGED <<lock, disk, index, main, processing, dlq, retry, upl, wrk, swp, call, drv>>

Ingest(c) ==
  \/ IngestBackpressure(c)
  \/ IngestCreate(c)
  \/ IngestCommit(c)
  \/ IngestEnqueue(c)
  \/ IngestEnqueueFails(c)
  \/ IngestCompensate(c)

\* ------------------------------------------------------------ UploadService.upload

\* 1. backpressure check, for an upload to document id: a full queue raises
\* AppError("Queue full, try again later"), not QueueFullError
UploadBackpressure(u, id) ==
  /\ upl[u].pc = "start"
  /\ upl' = [upl EXCEPT ![u] =
       IF Len(main) >= QUEUE_MAX_LENGTH
         THEN [pc |-> "done", target |-> id, ret |-> "AppError"]
         ELSE [pc |-> "save", target |-> id, ret |-> "-"]]
  /\ UNCHANGED <<db, lock, disk, index, main, processing, dlq, retry, ing, wrk, swp, call, drv>>

\* 2. file_store.save_file, outside any transaction
UploadSave(u) ==
  /\ upl[u].pc = "save"
  /\ disk' = disk \cup {upl[u].target}
  /\ upl' = [upl EXCEPT ![u].pc = "load"]
  /\ UNCHANGED <<db, lock, index, main, processing, dlq, retry, ing, wrk, swp, call, drv>>

UploadLoad_without_status_check(u) ==
  /\ upl[u].pc = "load"
  /\ upl' = [upl EXCEPT ![u] =
       IF ~Visible(upl[u].target)
         THEN [@ EXCEPT !.pc = "done", !.ret = "DocumentNotFound"]
       ELSE [@ EXCEPT !.pc = "set_path"]]
  /\ UNCHANGED <<db, lock, disk, index, main, processing, dlq, retry, ing, wrk, swp, call, drv>>

\* 3. get_document_by_id (a plain read, no row lock) and the status check
UploadLoad(u) ==
  /\ upl[u].pc = "load"
  /\ upl' = [upl EXCEPT ![u] =
       IF ~Visible(upl[u].target)
         THEN [@ EXCEPT !.pc = "done", !.ret = "DocumentNotFound"]
       ELSE IF db[upl[u].target].status \in {PROCESSING, DONE}
         THEN [@ EXCEPT !.pc = "done", !.ret = "ProcessingConflict"]
       ELSE [@ EXCEPT !.pc = "set_path"]]
  /\ UNCHANGED <<db, lock, disk, index, main, processing, dlq, retry, ing, wrk, swp, call, drv>>

\* update_file_path: the UPDATE is flushed and takes the row lock until commit
UploadSetPath(u) ==
  /\ upl[u].pc = "set_path"
  /\ lock[upl[u].target] = NoOne
  /\ lock' = [lock EXCEPT ![upl[u].target] = u]
  /\ upl' = [upl EXCEPT ![u].pc = "enqueue"]
  /\ UNCHANGED <<db, disk, index, main, processing, dlq, retry, ing, wrk, swp, call, drv>>

\* queue.enqueue(doc.id), inside the transaction
UploadEnqueue(u) ==
  /\ upl[u].pc = "enqueue"
  /\ main' = RPUSH(main, FreshEntry(upl[u].target))
  /\ upl' = [upl EXCEPT ![u].pc = "commit"]
  /\ UNCHANGED <<db, lock, disk, index, processing, dlq, retry, ing, wrk, swp, call, drv>>

\* the end of the session.begin() block: file_path is committed, the lock released
UploadCommit(u) ==
  /\ upl[u].pc = "commit"
  /\ db' = [db EXCEPT ![upl[u].target] = update_file_path(@, PathOf(upl[u].target))]
  /\ lock' = [lock EXCEPT ![upl[u].target] = NoOne]
  /\ upl' = [upl EXCEPT ![u] = [@ EXCEPT !.pc = "done", !.ret = "accepted"]]
  /\ UNCHANGED <<disk, index, main, processing, dlq, retry, ing, wrk, swp, call, drv>>

Upload(u) ==
  \/ \E id \in DocIds : UploadBackpressure(u, id)
  \/ UploadSave(u)
  \/ UploadLoad(u)
  \/ UploadSetPath(u)
  \/ UploadEnqueue(u)
  \/ UploadCommit(u)

\* ------------------------------------------------------------ the HTTP layer

\* POST /documents: the status code for each outcome of IngestService.ingest
ingest_document(ret) ==
  IF ret \in {"created", "existing"} THEN 202
  ELSE IF ret = "QueueFull" THEN 429
  ELSE 400

\* POST /documents/{id}/upload: the status code for each outcome of
\* UploadService.upload
upload_document(ret) ==
  IF ret = "accepted" THEN 202
  ELSE IF ret = "DocumentNotFound" THEN 404
  ELSE IF ret = "ProcessingConflict" THEN 409
  ELSE IF ret \in {"InvalidStateTransition", "DuplicateDocument", "MaxRetriesExceeded"} THEN 400
  ELSE 500

\* ------------------------------------------------------------ DocumentQueue

\* the entry dequeue writes back: {"document_id": ..., "started_at": time.time()}
Enriched(e) == [doc |-> e.doc, started |-> 0, rc |-> NoRc]

\* an element of the dead-letter list: move_to_dlq's {"payload", "reason"} record
\* (kind "entry"), or the bare document id the worker pushes (kind "document_id")
DlqEntry(kind, e, reason) == [kind |-> kind, payload |-> e, reason |-> reason]

\* move_to_dlq: RPUSH DEAD_LETTER_QUEUE
move_to_dlq(list, e, reason) ==
  IF Len(list) >= MaxDLQ THEN list ELSE RPUSH(list, DlqEntry("entry", e, reason))

\* acknowledge: LREM of the payload, else LREM of the legacy form without started_at
acknowledge(list, raw) ==
  IF Contains(list, raw) THEN LREM(list, raw) ELSE LREM(list, FreshEntry(raw.doc))

\* A payload this program did not write is an entry whose doc field is one of
\* the codes below.

\* text that is not JSON, e.g. not even json
NotJson == 0 - 1
\* a JSON object without the key, e.g. {"invalid": "no document_id"}
NoDocumentId == 0 - 2
\* an identifier that is text but no UUID, e.g. {"document_id": "zz"}
BadUuidText == 0 - 3
\* a null identifier: {"document_id": null}
NullId == 0 - 4
\* an identifier that is a number, a list or a boolean, e.g. {"document_id": 123}
NumberId == 0 - 5

Unparseable == {NotJson, NoDocumentId, BadUuidText, NullId, NumberId}

ForeignPayload(k) == [doc |-> k, started |-> NoTs, rc |-> NoRc]

\* what json.loads(result) and UUID(incoming["document_id"]) raise for entry e
parse_error(e) ==
  IF e.doc = NotJson THEN "JSONDecodeError"
  ELSE IF e.doc = NoDocumentId THEN "KeyError"
  ELSE IF e.doc = BadUuidText THEN "ValueError"
  ELSE IF e.doc = NullId THEN "TypeError"
  ELSE IF e.doc = NumberId THEN "AttributeError"
  ELSE "-"

\* except (KeyError, ValueError, TypeError, json.JSONDecodeError)
ParseErrorsCaught == {"KeyError", "ValueError", "TypeError", "JSONDecodeError"}

\* requeue_stale_jobs: an entry the sweep acts on has a started_at at least
\* max_age_seconds old
Stale(e) == e.started # NoTs /\ e.started >= TicksPerTimeout

\* payload.get("retry_count", 0)
RetryCountOf(e) == IF e.rc = NoRc THEN 0 ELSE e.rc

Requeued_same_retry_count(e) == [doc |-> e.doc, started |-> NoTs, rc |-> RetryCountOf(e)]

\* the requeue payload: {"document_id": ..., "retry_count": retry_count + 1}
Requeued(e) == [doc |-> e.doc, started |-> NoTs, rc |-> RetryCountOf(e) + 1]

\* ------------------------------------------------------------ DocumentWorker

DocOf(w) == wrk[w].raw.doc

DequeuePop_ignores_running(w) ==
  /\ wrk[w].pc = "idle"
  /\ main # <<>>
  /\ main' = Front(main)
  /\ processing' = LPUSH(processing, Last(main))
  /\ wrk' = [wrk EXCEPT ![w] =
       [@ EXCEPT !.raw = Last(main),
                 !.pc = IF Last(main).started = NoTs THEN "deq_lrem" ELSE "check_retry"]]
  /\ UNCHANGED <<db, lock, disk, index, dlq, retry, ing, upl, swp, call, drv>>

\* while self.running: dequeue: BRPOPLPUSH MAIN_QUEUE PROCESSING_QUEUE
DequeuePop(w) ==
  /\ wrk[w].pc = "idle"
  /\ wrk[w].running
  /\ main # <<>>
  /\ main' = Front(main)
  /\ processing' = LPUSH(processing, Last(main))
  /\ wrk' = [wrk EXCEPT ![w] =
       [@ EXCEPT !.raw = Last(main),
                 !.pc = IF Last(main).started = NoTs THEN "deq_lrem" ELSE "check_retry"]]
  /\ UNCHANGED <<db, lock, disk, index, dlq, retry, ing, upl, swp, call, drv>>

\* dequeue: LREM PROCESSING_QUEUE 1 result
DequeueLrem(w) ==
  /\ wrk[w].pc = "deq_lrem"
  /\ processing' = LREM(processing, wrk[w].raw)
  /\ wrk' = [wrk EXCEPT ![w].pc = "deq_lpush"]
  /\ UNCHANGED <<db, lock, disk, index, main, dlq, retry, ing, upl, swp, call, drv>>

\* dequeue: LPUSH PROCESSING_QUEUE enriched_payload; returns (doc_id, enriched_payload)
DequeueLpush(w) ==
  /\ wrk[w].pc = "deq_lpush"
  /\ processing' = LPUSH(processing, Enriched(wrk[w].raw))
  /\ wrk' = [wrk EXCEPT ![w] = [@ EXCEPT !.raw = Enriched(wrk[w].raw), !.pc = "check_retry"]]
  /\ UNCHANGED <<db, lock, disk, index, main, dlq, retry, ing, upl, swp, call, drv>>

\* process: retry_count = int(redis.get(retry_key) or 0), compared with MAX_RETRIES
CheckRetry(w) ==
  /\ wrk[w].pc = "check_retry"
  /\ wrk' = [wrk EXCEPT ![w].pc = IF retry[DocOf(w)] >= MAX_RETRIES THEN "dlq" ELSE "claim"]
  /\ UNCHANGED <<db, lock, disk, index, main, processing, dlq, retry, ing, upl, swp, call, drv>>

\* process, retry budget used up: LPUSH of the document id on the dead-letter
\* list, then processor.mark_failed(id, reason=...).  mark_failed takes no
\* `reason`: the call raises TypeError, process raises, and run() passes on
\* without acknowledging.
WorkerDLQ(w) ==
  /\ wrk[w].pc = "dlq"
  /\ dlq' = IF Len(dlq) >= MaxDLQ THEN dlq
            ELSE LPUSH(dlq, DlqEntry("document_id", FreshEntry(DocOf(w)), "-"))
  /\ wrk' = [wrk EXCEPT ![w] = [IdleWorker EXCEPT !.running = wrk[w].running]]
  /\ UNCHANGED <<db, lock, disk, index, main, processing, retry, ing, upl, swp, call, drv>>

\* DocumentProcessor.process, transaction 1: get_document_by_id_for_update and
\* the checks on the row.  DocumentNotFound and ProcessingConflict roll back.
Claim(w) ==
  /\ wrk[w].pc = "claim"
  /\ IF ~Visible(DocOf(w))
       THEN /\ wrk' = [wrk EXCEPT ![w] =
                 [@ EXCEPT !.pc = "mark_failed", !.err = "DocumentNotFound"]]
            /\ lock' = lock
       ELSE /\ CanLock(DocOf(w))
            /\ IF db[DocOf(w)].status \in {DONE, PROCESSING}
                 THEN /\ wrk' = [wrk EXCEPT ![w] =
                           [@ EXCEPT !.pc = "mark_failed", !.err = "ProcessingConflict"]]
                      /\ lock' = lock
                 ELSE /\ wrk' = [wrk EXCEPT ![w] =
                           [@ EXCEPT !.pc = "claim_update", !.fp = db[DocOf(w)].file_path]]
                      /\ lock' = [lock EXCEPT ![DocOf(w)] = w]
  /\ UNCHANGED <<db, disk, index, main, processing, dlq, retry, ing, upl, swp, call, drv>>

\* transaction 1, continued: update_status(doc_id, PROCESSING) and the commit,
\* or the rollback when update_status raises
ClaimUpdate(w) ==
  /\ wrk[w].pc = "claim_update"
  /\ db' = [db EXCEPT ![DocOf(w)] = update_status(@, PROCESSING)]
  /\ lock' = [lock EXCEPT ![DocOf(w)] = NoOne]
  /\ wrk' = [wrk EXCEPT ![w] =
       IF update_status_outcome(db[DocOf(w)], PROCESSING) = "ok"
         THEN [@ EXCEPT !.pc = "heavy"]
         ELSE [@ EXCEPT !.pc = "mark_failed", !.fp = NoPath,
                        !.err = update_status_outcome(db[DocOf(w)], PROCESSING)]]
  /\ UNCHANGED <<disk, index, main, processing, dlq, retry, ing, upl, swp, call, drv>>

\* heavy lifting with no file_path: nothing to read
HeavySkip(w) ==
  /\ wrk[w].pc = "heavy"
  /\ wrk[w].fp = NoPath
  /\ wrk' = [wrk EXCEPT ![w].pc = "finalize"]
  /\ UNCHANGED <<db, lock, disk, index, main, processing, dlq, retry, ing, upl, swp, call, drv>>

\* heavy lifting: the file is read, chunked, embedded and upserted
HeavyOk(w) ==
  /\ wrk[w].pc = "heavy"
  /\ wrk[w].fp # NoPath
  /\ wrk[w].fp \in disk
  /\ index' = index \cup {DocOf(w)}
  /\ wrk' = [wrk EXCEPT ![w].pc = "finalize"]
  /\ UNCHANGED <<db, lock, disk, main, processing, dlq, retry, ing, upl, swp, call, drv>>

\* heavy lifting on an empty file: chunk() returns no chunks, and nothing is
\* embedded or upserted
HeavyNoChunks(w) ==
  /\ wrk[w].pc = "heavy"
  /\ wrk[w].fp # NoPath
  /\ wrk[w].fp \in disk
  /\ wrk' = [wrk EXCEPT ![w].pc = "finalize"]
  /\ UNCHANGED <<db, lock, disk, index, main, processing, dlq, retry, ing, upl, swp, call, drv>>

\* heavy lifting raises: the file is gone, or the embedder or the index fails
HeavyFails(w) ==
  /\ wrk[w].pc = "heavy"
  /\ wrk[w].fp # NoPath
  /\ wrk' = [wrk EXCEPT ![w] = [@ EXCEPT !.pc = "cleanup", !.err = "AppError"]]
  /\ UNCHANGED <<db, lock, disk, index, main, processing, dlq, retry, ing, upl, swp, call, drv>>

Finalize_after_delete(w) ==
  /\ wrk[w].pc = "finalize"
  /\ db' = db
  /\ wrk' = [wrk EXCEPT ![w].pc = "delete_file"]
  /\ UNCHANGED <<lock, disk, index, main, processing, dlq, retry, ing, upl, swp, call, drv>>

\* transaction 2: update_status(doc_id, DONE), clear_file_path, commit; when
\* update_status raises, the rollback and the except branch (err names the
\* exception the AppError is raised from)
Finalize(w) ==
  /\ wrk[w].pc = "finalize"
  /\ CanLock(DocOf(w))
  /\ IF update_status_outcome(db[DocOf(w)], DONE) = "ok"
       THEN /\ db' = [db EXCEPT ![DocOf(w)] = clear_file_path(update_status(@, DONE))]
            /\ wrk' = [wrk EXCEPT ![w].pc = "delete_file"]
       ELSE /\ db' = db
            /\ wrk' = [wrk EXCEPT ![w] =
                 [@ EXCEPT !.pc = "cleanup",
                           !.err = update_status_outcome(db[DocOf(w)], DONE)]]
  /\ UNCHANGED <<lock, disk, index, main, processing, dlq, retry, ing, upl, swp, call, drv>>

\* 5. delete the file after successful processing; process returns
DeleteFile(w) ==
  /\ wrk[w].pc = "delete_file"
  /\ disk' = disk \ {wrk[w].fp}
  /\ wrk' = [wrk EXCEPT ![w].pc = "del_retry"]
  /\ UNCHANGED <<db, lock, index, main, processing, dlq, retry, ing, upl, swp, call, drv>>

\* the except branch of process: delete the file, raise AppError
Cleanup(w) ==
  /\ wrk[w].pc = "cleanup"
  /\ disk' = disk \ {wrk[w].fp}
  /\ wrk' = [wrk EXCEPT ![w].pc = "mark_failed"]
  /\ UNCHANGED <<db, lock, index, main, processing, dlq, retry, ing, upl, swp, call, drv>>

\* mark_failed: get_document_by_id (a plain read) and, if the row has a
\* file_path, _delete_file
MarkFailedRead(w) ==
  /\ wrk[w].pc = "mark_failed"
  /\ wrk' = [wrk EXCEPT ![w] =
       [@ EXCEPT !.pc = "mark_failed_tx",
                 !.mfp = IF Visible(DocOf(w)) THEN db[DocOf(w)].file_path ELSE NoPath]]
  /\ disk' = IF Visible(DocOf(w)) THEN disk \ {db[DocOf(w)].file_path} ELSE disk
  /\ UNCHANGED <<db, lock, index, main, processing, dlq, retry, ing, upl, swp, call, drv>>

\* the row mark_failed commits: clear_file_path if a path was read, then
\* update_status(doc_id, FAILED); the transaction is rolled back when that raises
mark_failed_row(row, mfp) ==
  IF update_status_outcome(row, FAILED) # "ok" THEN row
  ELSE IF mfp # NoPath THEN update_status(clear_file_path(row), FAILED)
  ELSE update_status(row, FAILED)

\* mark_failed: the writes and the commit; process_job then returns False
MarkFailedTx(w) ==
  /\ wrk[w].pc = "mark_failed_tx"
  /\ Visible(DocOf(w)) => lock[DocOf(w)] = NoOne
  /\ db' = IF Visible(DocOf(w))
             THEN [db EXCEPT ![DocOf(w)] = mark_failed_row(@, wrk[w].mfp)]
             ELSE db
  /\ wrk' = [wrk EXCEPT ![w] = [@ EXCEPT !.pc = "incr_retry", !.fp = NoPath, !.mfp = NoPath]]
  /\ UNCHANGED <<lock, disk, index, main, processing, dlq, retry, ing, upl, swp, call, drv>>

IncrRetry_acknowledges(w) ==
  /\ wrk[w].pc = "incr_retry"
  /\ retry' = [retry EXCEPT ![DocOf(w)] = @ + 1]
  /\ processing' = acknowledge(processing, wrk[w].raw)
  /\ wrk' = [wrk EXCEPT ![w] = [IdleWorker EXCEPT !.running = wrk[w].running]]
  /\ UNCHANGED <<db, lock, disk, index, main, dlq, ing, upl, swp, call, drv>>

\* process, failure: redis.incr(retry_key), re-raise; run() does not acknowledge
IncrRetry(w) ==
  /\ wrk[w].pc = "incr_retry"
  /\ retry' = [retry EXCEPT ![DocOf(w)] = @ + 1]
  /\ wrk' = [wrk EXCEPT ![w] = [IdleWorker EXCEPT !.running = wrk[w].running]]
  /\ UNCHANGED <<db, lock, disk, index, main, processing, dlq, ing, upl, swp, call, drv>>

\* process, success: redis.delete(retry_key)
DelRetry(w) ==
  /\ wrk[w].pc = "del_retry"
  /\ retry' = [retry EXCEPT ![DocOf(w)] = 0]
  /\ wrk' = [wrk EXCEPT ![w] = [@ EXCEPT !.pc = "ack", !.fp = NoPath]]
  /\ UNCHANGED <<db, lock, disk, index, main, processing, dlq, ing, upl, swp, call, drv>>

\* run(): queue.acknowledge(raw_payload)
Ack(w) ==
  /\ wrk[w].pc = "ack"
  /\ processing' = acknowledge(processing, wrk[w].raw)
  /\ wrk' = [wrk EXCEPT ![w] = [IdleWorker EXCEPT !.running = wrk[w].running]]
  /\ UNCHANGED <<db, lock, disk, index, main, dlq, retry, ing, upl, swp, call, drv>>

Worker(w) ==
  \/ DequeuePop(w)
  \/ DequeueLrem(w)
  \/ DequeueLpush(w)
  \/ CheckRetry(w)
  \/ WorkerDLQ(w)
  \/ Claim(w)
  \/ ClaimUpdate(w)
  \/ HeavySkip(w)
  \/ HeavyOk(w)
  \/ HeavyNoChunks(w)
  \/ HeavyFails(w)
  \/ Finalize(w)
  \/ DeleteFile(w)
  \/ Cleanup(w)
  \/ MarkFailedRead(w)
  \/ MarkFailedTx(w)
  \/ IncrRetry(w)
  \/ DelRetry(w)
  \/ Ack(w)

\* ------------------------------------------------------------ the stale-job sweep

\* the items of the LRANGE that the loop does not skip: json.loads raises
\* (the except branch), or started_at is there and max_age_seconds old
SweepActsOn(e) == parse_error(e) = "JSONDecodeError" \/ Stale(e)

\* the "skipped" of the result: the items that are JSON, with no started_at or
\* a young one
Skipped(items) == Len(items) - Len(SelectSeq(items, SweepActsOn))

\* requeue_stale_jobs: LRANGE PROCESSING_QUEUE 0 -1; entries without started_at
\* or younger than max_age_seconds are skipped
SweepStart(s) ==
  /\ swp[s].pc = "idle"
  /\ SelectSeq(processing, SweepActsOn) # <<>>
  /\ swp' = [swp EXCEPT ![s] =
       [pc |-> "loop", items |-> SelectSeq(processing, SweepActsOn), cur |-> NoEntry]]
  /\ UNCHANGED <<db, lock, disk, index, main, processing, dlq, retry, ing, upl, wrk, call, drv>>

\* LREM PROCESSING_QUEUE 1 item (its result is not looked at)
SweepLrem(s) ==
  /\ swp[s].pc = "loop"
  /\ processing' = LREM(processing, Head(swp[s].items))
  /\ swp' = [swp EXCEPT ![s] =
       [pc |-> "removed", items |-> Tail(swp[s].items), cur |-> Head(swp[s].items)]]
  /\ UNCHANGED <<db, lock, disk, index, main, dlq, retry, ing, upl, wrk, call, drv>>

\* an item that is not JSON: move_to_dlq; retry_count >= max_retries:
\* move_to_dlq; otherwise LPUSH MAIN_QUEUE of the requeue payload
SweepPush(s) ==
  /\ swp[s].pc = "removed"
  /\ IF parse_error(swp[s].cur) = "JSONDecodeError"
       THEN /\ dlq' = move_to_dlq(dlq, swp[s].cur, "Malformed in processing queue")
            /\ main' = main
     ELSE IF RetryCountOf(swp[s].cur) >= MAX_RETRIES
       THEN /\ dlq' = move_to_dlq(dlq, swp[s].cur, "Exceeded retries")
            /\ main' = main
       ELSE /\ main' = LPUSH(main, Requeued(swp[s].cur))
            /\ dlq' = dlq
  /\ swp' = [swp EXCEPT ![s] =
       [pc |-> IF swp[s].items = <<>> THEN "idle" ELSE "loop",
        items |-> swp[s].items, cur |-> NoEntry]]
  /\ UNCHANGED <<db, lock, disk, index, processing, retry, ing, upl, wrk, call, drv>>

\* one runner of requeue_stale_jobs
SweepRun(s) ==
  \/ SweepStart(s)
  \/ SweepLrem(s)
  \/ SweepPush(s)

\* the periodic sweep, run in one process
Sweep == SweepRun("sw1")

\* ------------------------------------------------------------ the clock

Older(e) ==
  IF e.started = NoTs \/ e.started >= TicksPerTimeout THEN e
  ELSE [e EXCEPT !.started = @ + 1]

OlderAll(list) == [k \in 1..Len(list) |-> Older(list[k])]

\* one tick of time.time(): every started_at is one tick older
Tick ==
  /\ processing' = OlderAll(processing)
  /\ wrk' = [w \in Workers |-> [wrk[w] EXCEPT !.raw = Older(@)]]
  /\ dlq' = [k \in 1..Len(dlq) |-> [dlq[k] EXCEPT !.payload = Older(@)]]
  /\ UNCHANGED <<db, lock, disk, index, main, retry, ing, upl, swp, call, drv>>

\* ------------------------------------------------------------ the system

Next ==
  \/ \E c \in IngestReqs : Ingest(c)
  \/ \E u \in UploadReqs : Upload(u)
  \/ \E w \in Workers : Worker(w)
  \/ Sweep
  \/ Tick

Spec == Init /\ [][Next]_vars

\* the system with one request of each kind and one worker, and beside it any
\* caller of update_status and retry_document on the document
NextOps ==
  \/ Ingest("i1")
  \/ Upload("u1")
  \/ Worker("w1")
  \/ Sweep
  \/ Tick
  \/ \E target \in DocumentStatus : Repo_update_status(1, target)
  \/ Repo_retry_document(1)

SpecOps == Init /\ [][NextOps]_vars

\* the embedder fails on every attempt, and the uploaded file has content: the
\* worker without HeavyOk and HeavyNoChunks
WorkerEmbedderDown(w) ==
  \/ DequeuePop(w)
  \/ DequeueLrem(w)
  \/ DequeueLpush(w)
  \/ CheckRetry(w)
  \/ WorkerDLQ(w)
  \/ Claim(w)
  \/ ClaimUpdate(w)
  \/ HeavySkip(w)
  \/ HeavyFails(w)
  \/ Finalize(w)
  \/ DeleteFile(w)
  \/ Cleanup(w)
  \/ MarkFailedRead(w)
  \/ MarkFailedTx(w)
  \/ IncrRetry(w)
  \/ DelRetry(w)
  \/ Ack(w)

IngestNoFault(c) ==
  \/ IngestBackpressure(c)
  \/ IngestCreate(c)
  \/ IngestCommit(c)
  \/ IngestEnqueue(c)

NextRetry ==
  \/ IngestNoFault("i1")
  \/ Upload("u1")
  \/ WorkerEmbedderDown("w1")
  \/ Sweep
  \/ Tick

\* one ingest, one upload, one worker whose embedder is down, the sweep and
\* the clock, each of them scheduled fairly: a request that can proceed does,
\* the worker loop and the periodic sweep keep running, time passes
SpecRetry ==
  /\ Init
  /\ [][NextRetry]_vars
  /\ WF_vars(IngestNoFault("i1"))
  /\ WF_vars(Upload("u1"))
  /\ WF_vars(WorkerEmbedderDown("w1"))
  /\ WF_vars(Sweep)
  /\ WF_vars(Tick)

\* the client uploads a file for the document its ingest created, after the
\* ingest has returned
UploadAfterIngest(u) ==
  \/ /\ ing["i1"].ret = "created"
     /\ UploadBackpressure(u, ing["i1"].doc)
  \/ UploadSave(u)
  \/ UploadLoad(u)
  \/ UploadSetPath(u)
  \/ UploadEnqueue(u)
  \/ UploadCommit(u)

\* no injected fault and a file with content: the read, the embedder and the
\* index succeed.  The except branch of process is left out: with one worker
\* nothing takes a claimed document out of PROCESSING, so neither the heavy
\* lifting nor transaction 2 raises.
WorkerNoFault(w) ==
  \/ DequeuePop(w)
  \/ DequeueLrem(w)
  \/ DequeueLpush(w)
  \/ CheckRetry(w)
  \/ WorkerDLQ(w)
  \/ Claim(w)
  \/ ClaimUpdate(w)
  \/ HeavySkip(w)
  \/ HeavyOk(w)
  \/ Finalize(w)
  \/ DeleteFile(w)
  \/ MarkFailedRead(w)
  \/ MarkFailedTx(w)
  \/ IncrRetry(w)
  \/ DelRetry(w)
  \/ Ack(w)

NextHappy ==
  \/ IngestNoFault("i1")
  \/ UploadAfterIngest("u1")
  \/ WorkerNoFault("w1")
  \/ Sweep
  \/ Tick

\* the happy path: one ingest, then one upload for its document, one running
\* worker, the sweep and the clock, without faults and scheduled fairly
SpecHappy ==
  /\ Init
  /\ [][NextHappy]_vars
  /\ WF_vars(IngestNoFault("i1"))
  /\ WF_vars(UploadAfterIngest("u1"))
  /\ WF_vars(WorkerNoFault("w1"))
  /\ WF_vars(Sweep)
  /\ WF_vars(Tick)

\* ------------------------------------------------------------ DocumentQueue, called directly
\* A caller (a test, a script, another service) that uses the queue's methods
\* one after the other with no other actor in between.  Each action is one
\* whole call.

\* the number of enqueue calls the caller makes
MaxEnq == 2

\* the longest list the caller finds in the broker
MaxInitLen == 1

dequeue_result_returns_original(m) == Last(m)

\* the payload dequeue returns for the entry it popped from MAIN
dequeue_result(m) ==
  IF Last(m).started = NoTs THEN Enriched(Last(m)) ELSE Last(m)

\* PROCESSING after dequeue: BRPOPLPUSH, and for an entry without started_at
\* the LREM of the original and the LPUSH of the enriched payload
dequeue_processing(m, p) ==
  IF Last(m).started = NoTs
    THEN LPUSH(LREM(LPUSH(p, Last(m)), Last(m)), Enriched(Last(m)))
    ELSE LPUSH(p, Last(m))

\* entries a caller can find in MAIN: enqueued, or requeued by the sweep
MainEntries ==
  {FreshEntry(d) : d \in DocIds} \cup {Requeued(FreshEntry(d)) : d \in DocIds}

\* entries a caller can find in PROCESSING: just popped, or enriched some time ago
ProcessingEntries ==
  {FreshEntry(d) : d \in DocIds}
    \cup {[doc |-> d, started |-> a, rc |-> NoRc] : d \in DocIds, a \in 0..TicksPerTimeout}

\* the sequences over S of length at most n
RECURSIVE SeqsUpTo(_, _)
SeqsUpTo(S, n) ==
  IF n = 0 THEN {<<>>}
  ELSE SeqsUpTo(S, n - 1) \cup {Append(q, x) : q \in SeqsUpTo(S, n - 1), x \in S}

\* the system at rest with the broker lists m, p, d and the direct caller v
AtRest(m, p, d, v) ==
  /\ db = [i \in DocIds |-> NoRow]
  /\ lock = [i \in DocIds |-> NoOne]
  /\ disk = {}
  /\ index = {}
  /\ main = m
  /\ processing = p
  /\ dlq = d
  /\ retry = [i \in DocIds |-> 0]
  /\ ing = [c \in IngestReqs |-> [pc |-> "start", doc |-> 0, ret |-> "-"]]
  /\ upl = [u \in UploadReqs |-> [pc |-> "start", target |-> 0, ret |-> "-"]]
  /\ wrk = [w \in Workers |-> IdleWorker]
  /\ swp = [s \in Sweepers |-> IdleSweep]
  /\ call = NoCall
  /\ drv = v

InitQueue ==
  \E m \in SeqsUpTo(MainEntries, MaxInitLen), p \in SeqsUpTo(ProcessingEntries, MaxInitLen),
     d \in {<<>>} \cup {<<DlqEntry("document_id", FreshEntry(i), "-")>> : i \in DocIds} :
    AtRest(m, p, d, [NoDriver EXCEPT !.pc = "enqueue", !.main0 = m,
                                       !.processing0 = p, !.dlq0 = d])

\* enqueue(id)
Q_enqueue(id) ==
  /\ drv.pc = "enqueue"
  /\ Len(drv.enq) < MaxEnq
  /\ main' = RPUSH(main, FreshEntry(id))
  /\ drv' = [drv EXCEPT !.enq = Append(@, id)]
  /\ UNCHANGED <<db, lock, disk, index, processing, dlq, retry, ing, upl, wrk, swp, call>>

\* dequeue() on a MAIN that is not empty; the caller enqueues no more after it
Q_dequeue ==
  /\ drv.pc \in {"enqueue", "dequeue"}
  /\ main # <<>>
  /\ main' = Front(main)
  /\ processing' = dequeue_processing(main, processing)
  /\ drv' = [drv EXCEPT !.pc = "dequeue", !.deq = Append(@, Last(main).doc),
                         !.raw = dequeue_result(main)]
  /\ UNCHANGED <<db, lock, disk, index, dlq, retry, ing, upl, wrk, swp, call>>

\* acknowledge(raw) with the payload of the last dequeue
Q_acknowledge ==
  /\ drv.pc = "dequeue"
  /\ drv.raw # NoEntry
  /\ processing' = acknowledge(processing, drv.raw)
  /\ drv' = [drv EXCEPT !.raw = NoEntry,
                         !.acked = IF acknowledge(processing, drv.raw) # processing
                                     THEN @ + 1 ELSE @]
  /\ UNCHANGED <<db, lock, disk, index, main, dlq, retry, ing, upl, wrk, swp, call>>

NextQueue ==
  \/ \E id \in DocIds : Q_enqueue(id)
  \/ Q_dequeue
  \/ Q_acknowledge

\* a single caller of enqueue, dequeue and acknowledge on any broker content
SpecQueue == InitQueue /\ [][NextQueue]_vars

\* ------------------------------------------------------------ dequeue on foreign payloads
\* MAIN is a broker list any producer can write to, so dequeue can meet
\* payloads this program did not write.

\* the longest MAIN the caller of dequeue finds
MaxPayloads == 2

\* MAIN holds entries of this program and foreign payloads, PROCESSING some
\* entries in flight
InitDequeue ==
  \E m \in SeqsUpTo(MainEntries \cup {ForeignPayload(k) : k \in Unparseable}, MaxPayloads),
     p \in SeqsUpTo(ProcessingEntries, MaxInitLen) :
    AtRest(m, p, <<>>, [NoDriver EXCEPT !.pc = "dequeue", !.main0 = m, !.processing0 = p])

\* one whole call of dequeue().  drv.pc tells how it ended: "returned" with a
\* job, "none" with (None, None) after a parse error, "empty" with (None, None)
\* at the timeout, "raised" with an exception; the caller calls again until it
\* has seen MAIN empty
Q_dequeue_call ==
  /\ drv.pc \in {"dequeue", "returned", "none", "raised"}
  /\ IF main = <<>>
       THEN /\ drv' = [drv EXCEPT !.pc = "empty", !.raw = NoEntry]
            /\ UNCHANGED <<main, processing, dlq>>
     ELSE IF parse_error(Last(main)) = "-"
       THEN /\ main' = Front(main)
            /\ processing' = dequeue_processing(main, processing)
            /\ dlq' = dlq
            /\ drv' = [drv EXCEPT !.pc = "returned", !.deq = Append(@, Last(main).doc),
                                   !.raw = dequeue_result(main)]
     ELSE IF parse_error(Last(main)) \in ParseErrorsCaught
       THEN /\ main' = Front(main)
            /\ dlq' = move_to_dlq(dlq, Last(main), parse_error(Last(main)))
            /\ processing' = LREM(LPUSH(processing, Last(main)), Last(main))
            /\ drv' = [drv EXCEPT !.pc = "none", !.raw = NoEntry]
     ELSE /\ main' = Front(main)
          /\ processing' = LPUSH(processing, Last(main))
          /\ dlq' = dlq
          /\ drv' = [drv EXCEPT !.pc = "raised", !.raw = NoEntry]
  /\ UNCHANGED <<db, lock, disk, index, retry, ing, upl, wrk, swp, call>>

\* a caller that calls dequeue again and again
SpecDequeue == InitDequeue /\ [][Q_dequeue_call]_vars

\* ------------------------------------------------------------ requeue_stale_jobs, called directly

\* payloads requeue_stale_jobs can be handed in PROCESSING: with or without
\* started_at, of any age, with or without retry_count
InjectedEntries ==
  {[doc |-> d, started |-> a, rc |-> r] :
     d \in DocIds, a \in {NoTs} \cup (0..TicksPerTimeout), r \in {NoRc} \cup (0..MAX_RETRIES)}

\* the delivered entries of p: those a worker can hold the payload of
Delivered(p) == {p[k] : k \in {j \in 1..Len(p) : p[j].started # NoTs}}

\* PROCESSING holds injected payloads, MAIN and the dead-letter list are empty,
\* and a worker may be about to acknowledge one of the delivered entries
InitSweep ==
  \E p \in SeqsUpTo(InjectedEntries, MaxDLQ) :
    \E raw \in {NoEntry} \cup Delivered(p) :
      AtRest(<<>>, p, <<>>, [NoDriver EXCEPT !.pc = "dequeue", !.processing0 = p, !.raw = raw])

\* one call of requeue_stale_jobs at a time, and nothing else
SpecSweep == InitSweep /\ [][Sweep]_vars

NextSweeps ==
  \/ \E s \in Sweepers : SweepRun(s)
  \/ Q_acknowledge

\* several runners of requeue_stale_jobs, and a worker's acknowledge
SpecSweeps == InitSweep /\ [][NextSweeps]_vars

\* ------------------------------------------------------------ a fault that clears

\* the heavy lifting fails while the document has no failed attempt behind it
\* (the embedder or the index is down), and the fault is gone afterwards
HeavyFailsOnce(w) ==
  /\ wrk[w].pc = "heavy"
  /\ retry[DocOf(w)] = 0
  /\ HeavyFails(w)

WorkerFaultClears(w) ==
  \/ DequeuePop(w)
  \/ DequeueLrem(w)
  \/ DequeueLpush(w)
  \/ CheckRetry(w)
  \/ WorkerDLQ(w)
  \/ Claim(w)
  \/ ClaimUpdate(w)
  \/ HeavySkip(w)
  \/ HeavyOk(w)
  \/ HeavyNoChunks(w)
  \/ HeavyFailsOnce(w)
  \/ Finalize(w)
  \/ DeleteFile(w)
  \/ Cleanup(w)
  \/ MarkFailedRead(w)
  \/ MarkFailedTx(w)
  \/ IncrRetry(w)
  \/ DelRetry(w)
  \/ Ack(w)

NextRecover ==
  \/ IngestNoFault("i1")
  \/ UploadAfterIngest("u1")
  \/ WorkerFaultClears("w1")
  \/ Sweep
  \/ Tick

\* one ingest, the upload for its document, one worker whose first attempt
\* can fail, the sweep and the clock, all scheduled fairly
SpecRecover ==
  /\ Init
  /\ [][NextRecover]_vars
  /\ WF_vars(IngestNoFault("i1"))
  /\ WF_vars(UploadAfterIngest("u1"))
  /\ WF_vars(WorkerFaultClears("w1"))
  /\ WF_vars(Sweep)
  /\ WF_vars(Tick)

\* ------------------------------------------------------------ a worker that crashes in dequeue

\* the worker process dies inside dequeue, after BRPOPLPUSH and before the
\* LPUSH of the enriched payload
Crash(w) ==
  /\ wrk[w].pc \in {"deq_lrem", "deq_lpush"}
  /\ wrk' = [wrk EXCEPT ![w].pc = "crashed"]
  /\ UNCHANGED <<db, lock, disk, index, main, processing, dlq, retry, ing, upl, swp, call, drv>>

NextCrash ==
  \/ IngestNoFault("i1")
  \/ Upload("u1")
  \/ Worker("w1")
  \/ Crash("w1")
  \/ Sweep
  \/ Tick

\* one ingest, one upload, one worker that may crash in dequeue, the periodic
\* sweep and the clock; every process that is alive is scheduled fairly
SpecCrash ==
  /\ Init
  /\ [][NextCrash]_vars
  /\ WF_vars(IngestNoFault("i1"))
  /\ WF_vars(Upload("u1"))
  /\ WF_vars(Worker("w1"))
  /\ WF_vars(Sweep)
  /\ WF_vars(Tick)

\* ------------------------------------------------------------ an ingest that does not finish

\* the API process dies after the commit of the new row and before enqueue
IngestCrash(c) ==
  /\ ing[c].pc = "enqueue"
  /\ ing' = [ing EXCEPT ![c] = [@ EXCEPT !.pc = "crashed"]]
  /\ UNCHANGED <<db, lock, disk, index, main, processing, dlq, retry, upl, wrk, swp, call, drv>>

\* the compensation transaction fails in the database: the inner except logs
\* it, and InfraError is raised all the same
IngestCompensateFails(c) ==
  /\ ing[c].pc = "compensate"
  /\ ing' = [ing EXCEPT ![c] = [@ EXCEPT !.pc = "done", !.ret = "InfraError"]]
  /\ UNCHANGED <<db, lock, disk, index, main, processing, dlq, retry, upl, wrk, swp, call, drv>>

\* the client's retry of the same source, sent when the first call is over
IngestRetry(c) == ing["i1"].pc \in {"done", "crashed"} /\ Ingest(c)

NextOrphan ==
  \/ Ingest("i1")
  \/ IngestCrash("i1")
  \/ IngestCompensateFails("i1")
  \/ IngestRetry("i2")
  \/ Upload("u1")
  \/ Worker("w1")
  \/ Sweep
  \/ Tick

\* an ingest that may crash or fail to compensate, the client's retry, a
\* worker, an upload, the sweep and the clock, all scheduled fairly; the crash
\* and the failing compensation are faults and may or may not happen
SpecOrphan ==
  /\ Init
  /\ [][NextOrphan]_vars
  /\ WF_vars(Ingest("i1"))
  /\ WF_vars(IngestRetry("i2"))
  /\ WF_vars(Upload("u1"))
  /\ WF_vars(Worker("w1"))
  /\ WF_vars(Sweep)
  /\ WF_vars(Tick)

\* ------------------------------------------------------------ the API with one worker

\* a document ingested earlier from another source, its file uploaded
EarlierDocument ==
  [source |-> "s2", committed |-> TRUE, status |-> PENDING,
   retry_count |-> 0, file_path |-> PathOf(2)]

\* n entries e
Copies(e, n) == [i \in 1..n |-> e]

\* the service with the earlier document waiting: each of its uploads so far
\* has enqueued an entry, and up to QUEUE_MAX_LENGTH of them are still in MAIN
InitApi ==
  \E k \in 0..QUEUE_MAX_LENGTH :
    /\ db = [i \in DocIds |-> IF i = 2 THEN EarlierDocument ELSE NoRow]
    /\ lock = [i \in DocIds |-> NoOne]
    /\ disk = {PathOf(2)}
    /\ index = {}
    /\ main = Copies(FreshEntry(2), k)
    /\ processing = <<>>
    /\ dlq = <<>>
    /\ retry = [i \in DocIds |-> 0]
    /\ ing = [c \in IngestReqs |-> [pc |-> "start", doc |-> 0, ret |-> "-"]]
    /\ upl = [u \in UploadReqs |-> [pc |-> "start", target |-> 0, ret |-> "-"]]
    /\ wrk = [w \in Workers |-> IdleWorker]
    /\ swp = [s \in Sweepers |-> IdleSweep]
    /\ call = NoCall
    /\ drv = NoDriver

NextApi ==
  \/ \E c \in IngestReqs : Ingest(c)
  \/ Upload("u1")
  \/ Worker("w1")
  \/ Sweep
  \/ Tick

\* two ingest calls for one source, one upload, one worker, the sweep
SpecApi == Init /\ [][NextApi]_vars

\* the worker where no job is delivered MAX_RETRIES times: without the sweep
\* a failed entry stays in PROCESSING, so the dead-letter branch is never taken
WorkerFewDeliveries(w) ==
  \/ DequeuePop(w)
  \/ DequeueLrem(w)
  \/ DequeueLpush(w)
  \/ CheckRetry(w)
  \/ Claim(w)
  \/ ClaimUpdate(w)
  \/ HeavySkip(w)
  \/ HeavyOk(w)
  \/ HeavyNoChunks(w)
  \/ HeavyFails(w)
  \/ Finalize(w)
  \/ DeleteFile(w)
  \/ Cleanup(w)
  \/ MarkFailedRead(w)
  \/ MarkFailedTx(w)
  \/ IncrRetry(w)
  \/ DelRetry(w)
  \/ Ack(w)

NextGate ==
  \/ \E c \in IngestReqs : Ingest(c)
  \/ Upload("u1")
  \/ WorkerFewDeliveries("w1")

\* the same calls and the worker, with the earlier document waiting in MAIN
SpecGate == InitApi /\ [][NextGate]_vars

\* ------------------------------------------------------------ shutdown of the worker

\* stop(), called by the SIGTERM / SIGINT handler at any moment
Stop(w) ==
  /\ wrk[w].running
  /\ wrk[w].pc # "stopped"
  /\ wrk' = [wrk EXCEPT ![w].running = FALSE]
  /\ UNCHANGED <<db, lock, disk, index, main, processing, dlq, retry, ing, upl, swp, call, drv>>

\* the loop test fails: run() returns and main() calls shutdown()
Exit(w) ==
  /\ wrk[w].pc = "idle"
  /\ ~wrk[w].running
  /\ wrk' = [wrk EXCEPT ![w].pc = "stopped"]
  /\ UNCHANGED <<db, lock, disk, index, main, processing, dlq, retry, ing, upl, swp, call, drv>>

\* the worker process: its loop and its exit
WorkerProcess(w) == WorkerFewDeliveries(w) \/ Exit(w)

NextStop ==
  \/ IngestNoFault("i1")
  \/ Upload("u1")
  \/ WorkerProcess("w1")
  \/ Stop("w1")

\* one ingest, one upload, and one worker that is told to stop at some moment;
\* every process that can take a step is scheduled
SpecStop ==
  /\ Init
  /\ [][NextStop]_vars
  /\ WF_vars(IngestNoFault("i1"))
  /\ WF_vars(Upload("u1"))
  /\ WF_vars(WorkerProcess("w1"))

\* ------------------------------------------------------------ database faults in the worker

\* transaction 2 fails in the database (connection lost, commit refused): it
\* is rolled back and the except branch of process runs
FinalizeFails(w) ==
  /\ wrk[w].pc = "finalize"
  /\ wrk' = [wrk EXCEPT ![w] = [@ EXCEPT !.pc = "cleanup", !.err = "DBAPIError"]]
  /\ UNCHANGED <<db, lock, disk, index, main, processing, dlq, retry, ing, upl, swp, call, drv>>

\* mark_failed's transaction fails in the database as well: process_job logs
\* it and returns False
MarkFailedRaises(w) ==
  /\ wrk[w].pc = "mark_failed_tx"
  /\ wrk' = [wrk EXCEPT ![w] = [@ EXCEPT !.pc = "incr_retry", !.fp = NoPath, !.mfp = NoPath]]
  /\ UNCHANGED <<db, lock, disk, index, main, processing, dlq, retry, ing, upl, swp, call, drv>>

NextFinalize ==
  \/ IngestNoFault("i1")
  \/ Upload("u1")
  \/ Worker("w1")
  \/ FinalizeFails("w1")
  \/ MarkFailedRaises("w1")
  \/ Sweep
  \/ Tick

\* one ingest, one upload and one worker whose database can fail in
\* transaction 2 and in mark_failed
SpecFinalize == Init /\ [][NextFinalize]_vars

\* ------------------------------------------------------------ requeue_stale_jobs on foreign payloads

\* what the sweep can find in PROCESSING of one document: an entry in
\* enrichment, a young and an old delivered one, an old one at the retry limit
SweepEntries ==
  {FreshEntry(1)}
    \cup {[doc |-> 1, started |-> a, rc |-> NoRc] : a \in 0..TicksPerTimeout}
    \cup {[doc |-> 1, started |-> TicksPerTimeout, rc |-> MAX_RETRIES]}

\* foreign payloads in PROCESSING: text that is not JSON, and the JSON
\* payloads dequeue can leave there or another producer can push
SweepForeign == {ForeignPayload(k) : k \in {NotJson, NoDocumentId, NumberId}}

InitSweepForeign ==
  \E p \in SeqsUpTo(SweepEntries \cup SweepForeign, MaxPayloads) :
    AtRest(<<>>, p, <<>>, [NoDriver EXCEPT !.pc = "sweep", !.processing0 = p])

\* one call of requeue_stale_jobs at a time on such a PROCESSING
SpecSweepForeign == InitSweepForeign /\ [][Sweep]_vars

\* ------------------------------------------------------------ acknowledge, called twice

\* acknowledge(raw) by a worker that holds the payload raw of a delivered entry,
\* and once more with the same payload (after a retried call, or by a second
\* holder of the payload)
Q_acknowledge_payload ==
  /\ drv.pc \in {"dequeue", "acknowledged"}
  /\ drv.raw # NoEntry
  /\ processing' = acknowledge(processing, drv.raw)
  /\ drv' = [drv EXCEPT !.pc = IF @ = "dequeue" THEN "acknowledged" ELSE "acknowledged twice",
                         !.acked = IF acknowledge(processing, drv.raw) # processing
                                     THEN @ + 1 ELSE @]
  /\ UNCHANGED <<db, lock, disk, index, main, dlq, retry, ing, upl, wrk, swp, call>>

\* PROCESSING holds any payloads, one of them delivered to the caller
SpecAck == InitSweep /\ [][Q_acknowledge_payload]_vars

\* ============================================================ properties

\* the edges of the documented state machine
LegalEdges ==
  {<<PENDING, PROCESSING>>, <<PROCESSING, DONE>>, <<PROCESSING, FAILED>>,
   <<PENDING, FAILED>>, <<FAILED, PENDING>>}

\* C1: a call of update_status or retry_document is accepted only when it
\* moves the stored status along a legal edge; every other request, a
\* same-status write included, is rejected.
C1_OnlyLegalEdges ==
  (call.op \in {"update_status", "retry_document"} /\ call.outcome = "ok")
    => <<call.before, call.target>> \in LegalEdges

\* C7: retry_count stays within 0..MAX_RETRIES, and a FAILED document whose
\* retry_count equals MAX_RETRIES is never moved back to PENDING.
C7_RetryBound ==
  /\ [](\A id \in DocIds : db[id].retry_count \in 0..MAX_RETRIES)
  /\ [][\A id \in DocIds :
          (db[id].status = FAILED /\ db[id].retry_count = MAX_RETRIES)
            => db'[id].status # PENDING]_vars

\* a retry was refused on a FAILED document that has used its whole budget
C7_Witness ==
  \E id \in DocIds :
    /\ db[id].status = FAILED
    /\ db[id].retry_count = MAX_RETRIES
    /\ call.id = id
    /\ call.op \in {"retry_document", "update_status"}
    /\ call.target = PENDING
    /\ call.outcome = "MaxRetriesExceeded"

\* C2: an entry leaves MAIN and PROCESSING only by an acknowledge or by a move
\* to the dead-letter list: no other step lowers the number of entries the two
\* lists hold together.
C2_AtLeastOnce ==
  [][(Len(main') + Len(processing') < Len(main) + Len(processing))
       => \/ \E w \in Workers : wrk[w].pc = "ack" /\ wrk'[w].pc = "idle"
          \/ Len(dlq') > Len(dlq)]_vars

RowsWith(s) == {i \in DocIds : db[i].source = s}

Returned == {c \in IngestReqs : ing[c].ret \in {"created", "existing"}}

Enqueuers == {c \in IngestReqs : ing[c].ret = "created"}

EnqueueFailed == {c \in IngestReqs : ing[c].ret = "InfraError"}

AllIngestsDone == \A c \in IngestReqs : ing[c].pc = "done"

\* C3 as stated: once the ingest calls for a source are over and some returned a
\* document, they all returned the same id, one row has the source, and
\* exactly one of the calls enqueued an entry.
C3_ExactlyOneEnqueue ==
  (AllIngestsDone /\ Returned # {})
    => /\ \A c1, c2 \in Returned : ing[c1].doc = ing[c2].doc
       /\ Cardinality(RowsWith("s1")) = 1
       /\ Cardinality(Enqueuers) = 1

\* C3 as amended: all calls that return a document return the id of the one
\* row with the source; at most one call enqueues, and once all calls are over
\* exactly one call has either enqueued or ended with InfraError because its
\* enqueue failed.
C3_Idempotent ==
  /\ \A c1, c2 \in Returned : ing[c1].doc = ing[c2].doc
  /\ Cardinality(RowsWith("s1")) <= 1
  /\ \A c \in Returned : RowsWith("s1") = {ing[c].doc}
  /\ Cardinality(Enqueuers) <= 1
  /\ (AllIngestsDone /\ Returned # {})
       => Cardinality(Enqueuers) + Cardinality(EnqueueFailed) = 1

\* two ingests of the same source are over: one created and enqueued, the
\* other replayed
C3_Witness ==
  /\ ing["i1"].ret = "created"
  /\ ing["i2"].ret = "existing"
  /\ ing["i1"].doc = ing["i2"].doc

\* C4: every entry in MAIN or PROCESSING names a document whose row is
\* committed.
C4_CommitThenPublish ==
  /\ \A k \in 1..Len(main) : Visible(main[k].doc)
  /\ \A k \in 1..Len(processing) : Visible(processing[k].doc)

\* the ingest has enqueued after its commit, and the upload has enqueued inside
\* its transaction, which is still open
C4_Witness ==
  /\ \E c \in IngestReqs : ing[c].ret = "created"
  /\ upl["u1"].pc = "commit"
  /\ Len(main) + Len(processing) = 2

\* the workers at each stage of process for document id
ClaimTx(id) == {w \in Workers : wrk[w].pc = "claim_update" /\ DocOf(w) = id}

Claimed(id) ==
  {w \in Workers : wrk[w].pc \in {"heavy", "finalize", "cleanup", "delete_file"} /\ DocOf(w) = id}

HeavyLifting(id) == {w \in Workers : wrk[w].pc = "heavy" /\ DocOf(w) = id}

\* C5: for each document at most one worker is inside the claim transaction,
\* at most one of the workers running process has made the transition to
\* PROCESSING, and at most one is in the heavy-lifting phase.
C5_OneClaimant ==
  \A id \in DocIds :
    /\ Cardinality(ClaimTx(id)) <= 1
    /\ Cardinality(Claimed(id)) <= 1
    /\ Cardinality(HeavyLifting(id)) <= 1

\* one worker is in the heavy-lifting phase and the other lost the race for
\* the same document
C5_Witness ==
  /\ wrk["w1"].pc = "heavy"
  /\ DocOf("w2") = DocOf("w1")
  /\ wrk["w2"].err = "ProcessingConflict"

\* C6: a worker whose claim met ProcessingConflict changes nothing of the
\* document: no step of its handling of that job changes the status, the
\* file_path or the file on disk.
C6_LoserChangesNothing ==
  [][\A w \in Workers :
       (wrk[w].err = "ProcessingConflict" /\ wrk'[w] # wrk[w] /\ wrk'[w].raw = wrk[w].raw)
         => /\ db'[DocOf(w)] = db[DocOf(w)]
            /\ disk' = disk]_vars

C9_DLQPathAcknowledges ==
  [][\A w \in Workers :
       (wrk[w].pc = "dlq" /\ wrk'[w].pc = "idle")
         => /\ ~Contains(processing', wrk[w].raw)
            /\ db'[DocOf(w)].status = FAILED]_vars

\* the state C10 says the system settles in
RetrySettled ==
  /\ db[1].status = FAILED
  /\ Len(dlq) = 1
  /\ processing = <<>>
  /\ main = <<>>
  /\ retry[1] = 0

\* C10: once the upload of the document is accepted, with the embedder down,
\* the system reaches and stays in the settled state.
C10_RetryThenDLQ == [](upl["u1"].ret = "accepted" => <>[]RetrySettled)

\* the state C11 says the happy path ends in, for the document the ingest created
HappyEnd ==
  /\ upl["u1"].ret = "accepted"
  /\ db[1].status = DONE
  /\ db[1].file_path = NoPath
  /\ 1 \in index
  /\ main = <<>>
  /\ processing = <<>>

\* C11: on the happy path the upload is accepted and the system eventually has
\* the document DONE with file_path null, a point in the index, and MAIN and
\* PROCESSING empty.
C11_HappyPath == <>HappyEnd

\* no entry of MAIN or PROCESSING names document id
NoEntryFor(id) ==
  /\ \A k \in 1..Len(main) : main[k].doc # id
  /\ \A k \in 1..Len(processing) : processing[k].doc # id

\* C12: once a document is DONE, its entries eventually are all out of MAIN
\* and PROCESSING and stay out.
C12_NoEntryOutlivesDone ==
  [](\A id \in DocIds : db[id].status = DONE => <>[]NoEntryFor(id))

\* C13: when the caller starts on an empty MAIN and makes its enqueues before
\* its dequeues, the i-th dequeue returns the i-th enqueued id.
C13_FIFO ==
  drv.main0 = <<>>
    => \A i \in 1..Len(drv.deq) : drv.deq[i] = drv.enq[i]

\* the caller has run enqueue(id), dequeue() and acknowledge(raw), in this order
RoundTripDone ==
  /\ Len(drv.enq) = 1
  /\ Len(drv.deq) = 1
  /\ drv.raw = NoEntry

\* C14: after enqueue(id), dequeue() and acknowledge(raw) the three lists are
\* what they were, and dequeue returned the id; the payload dequeue returns is
\* the one it stored at the head of PROCESSING.
C14_RoundTrip ==
  /\ (drv.pc = "dequeue" /\ drv.raw # NoEntry) => Head(processing) = drv.raw
  /\ (Len(drv.enq) = 1 /\ Len(drv.deq) = 1) => drv.deq[1] = drv.enq[1]
  /\ RoundTripDone => /\ main = drv.main0
                      /\ processing = drv.processing0
                      /\ dlq = drv.dlq0

\* a round trip is over on a PROCESSING list that already held the very payload
\* dequeue wrote
C14_Witness ==
  /\ RoundTripDone
  /\ drv.acked = 1
  /\ drv.main0 # <<>>
  /\ drv.processing0 = <<Enriched(FreshEntry(drv.enq[1]))>>

\* the entry C15 says is pushed to MAIN for the stale entry e
ExpectedRequeue(e) ==
  [doc |-> e.doc, started |-> NoTs, rc |-> (IF e.rc = NoRc THEN 0 ELSE e.rc) + 1]

StaleBelowLimit(e) ==
  e.started # NoTs /\ e.started >= TicksPerTimeout /\ (e.rc = NoRc \/ e.rc < MAX_RETRIES)

StaleAtLimit(e) ==
  e.started # NoTs /\ e.started >= TicksPerTimeout /\ e.rc # NoRc /\ e.rc >= MAX_RETRIES

NotStale(e) == e.started = NoTs \/ e.started < TicksPerTimeout

Reverse(q) == [k \in 1..Len(q) |-> q[Len(q) + 1 - k]]

SweepOver == swp["sw1"].pc = "idle" /\ SelectSeq(processing, Stale) = <<>>

C16_SweepSafe ==
  Len(main) + Len(processing) + Len(dlq) <= Len(drv.processing0) - drv.acked

\* C17: the success path deletes the file, and acknowledges the entry, only
\* when the DONE status of the document is committed.
C17_DoneBeforeDeleteAndAck ==
  [][\A w \in Workers :
       (\/ wrk[w].pc = "delete_file" /\ wrk'[w].pc # "delete_file"
        \/ wrk[w].pc = "ack" /\ wrk'[w].pc # "ack")
         => db[DocOf(w)].status = DONE /\ db[DocOf(w)].committed]_vars

\* a worker that indexed the file of a document is about to acknowledge: the
\* file is deleted and the document DONE
C17_Witness ==
  \E w \in Workers :
    /\ wrk[w].pc = "ack"
    /\ DocOf(w) \in index
    /\ PathOf(DocOf(w)) \notin disk
    /\ db[DocOf(w)].status = DONE

\* C18: a DONE document has no file_path.
C18_DoneHasNoFilePath ==
  \A id \in DocIds : db[id].status = DONE => db[id].file_path = NoPath

\* C19: a DONE document has points in the index.
C19_DoneIsIndexed ==
  \A id \in DocIds : db[id].status = DONE => id \in index

C21_FinalizeFailureKeepsProcessing ==
  [][\A w \in Workers :
       (wrk[w].err = "DBAPIError" /\ wrk[w].pc = "incr_retry" /\ wrk'[w].pc = "idle")
         => /\ db'[DocOf(w)].status = PROCESSING
            /\ processing' = processing]_vars

\* an entry of document id is in MAIN
InMain(q, id) == \E i \in 1..Len(q) : q[i].doc = id

\* C22: when enqueue has failed, the compensation of ingest moves the document
\* PENDING->FAILED, the caller receives InfraError (HTTP 400), and no entry
\* of the document is in MAIN.
C22_Compensation ==
  [][\A c \in IngestReqs :
       (ing[c].pc = "compensate" /\ ing'[c].pc = "done")
         => /\ db[ing[c].doc].status = PENDING
            /\ db'[ing[c].doc].status = FAILED
            /\ ing'[c].ret = "InfraError"
            /\ ~InMain(main', ing[c].doc)]_vars

\* C23: an ingest call that reads MAIN at or above QUEUE_MAX_LENGTH ends with
\* QueueFull (HTTP 429), with no row created and nothing enqueued, whether or
\* not its source has a row; a call that reads MAIN below the limit goes on,
\* and QueueFull has no other origin.
C23_IngestBackpressure ==
  [][\A c \in IngestReqs :
       /\ (ing[c].pc = "start" /\ ing'[c] # ing[c])
            => IF Len(main) >= QUEUE_MAX_LENGTH
                 THEN /\ ing'[c].pc = "done"
                      /\ ing'[c].ret = "QueueFull"
                      /\ ingest_document(ing'[c].ret) = 429
                      /\ ing'[c].doc = 0
                      /\ db' = db
                      /\ main' = main
                 ELSE /\ ing'[c].pc = "create"
                      /\ ing'[c].ret # "QueueFull"
       /\ (ing'[c].ret = "QueueFull" /\ ing[c].ret # "QueueFull")
            => (ing[c].pc = "start" /\ Len(main) >= QUEUE_MAX_LENGTH)]_vars

\* a call for a source that has no row was rejected with QueueFull
C23_Witness ==
  \E c \in IngestReqs : ing[c].ret = "QueueFull" /\ ~SourceTaken(SourceOf(c))

\* C24: the load step of an upload ends the call with DocumentNotFound (404)
\* for an absent document and with ProcessingConflict (409) for a PROCESSING
\* or DONE one, and goes on for a PENDING or FAILED one; only a call that went
\* on writes file_path (at its commit) and enqueues, one entry, once.
C24_UploadOutcomes ==
  [][\A u \in UploadReqs :
       LET t == upl[u].target
           pc == upl[u].pc
           pc2 == upl'[u].pc
       IN  (upl'[u] # upl[u]) =>
             /\ (pc = "load") =>
                   IF ~Visible(t)
                     THEN /\ pc2 = "done"
                          /\ upl'[u].ret = "DocumentNotFound"
                          /\ upload_document(upl'[u].ret) = 404
                   ELSE IF db[t].status \in {PROCESSING, DONE}
                     THEN /\ pc2 = "done"
                          /\ upl'[u].ret = "ProcessingConflict"
                          /\ upload_document(upl'[u].ret) = 409
                   ELSE pc2 = "set_path"
             /\ (pc2 = "set_path") => (pc = "load" /\ db[t].status \in {PENDING, FAILED})
             /\ (pc2 = "enqueue") => (pc = "set_path")
             /\ (pc2 = "commit") => (pc = "enqueue")
             /\ IF pc = "enqueue"
                  THEN main' = RPUSH(main, FreshEntry(t))
                  ELSE main' = main
             /\ IF pc = "commit"
                  THEN /\ db' = [db EXCEPT ![t].file_path = PathOf(t)]
                       /\ upl'[u].ret = "accepted"
                  ELSE db' = db]_vars

\* an upload was rejected with ProcessingConflict
C24_Witness == \E u \in UploadReqs : upl[u].ret = "ProcessingConflict"

\* C25: an upload that reads MAIN at or above QUEUE_MAX_LENGTH ends as a
\* rejected ingest does: QueueFull, HTTP 429, no file written, nothing enqueued.
C25_UploadBackpressure ==
  [][\A u \in UploadReqs :
       (upl[u].pc = "start" /\ upl'[u] # upl[u] /\ Len(main) >= QUEUE_MAX_LENGTH)
         => /\ upl'[u].pc = "done"
            /\ upl'[u].ret = "QueueFull"
            /\ upload_document(upl'[u].ret) = 429
            /\ disk' = disk
            /\ main' = main]_vars

\* the three requests no document accepts
RefusedEdges == {<<PENDING, DONE>>, <<DONE, PROCESSING>>, <<FAILED, DONE>>}

\* C26: update_status asked for PENDING->DONE, DONE->PROCESSING or FAILED->DONE
\* raises InvalidStateTransition and leaves the whole row as it was.
C26_RefusedEdges ==
  [][(call'.op = "update_status" /\ <<call'.before, call'.target>> \in RefusedEdges)
       => /\ call'.outcome = "InvalidStateTransition"
          /\ db' = db]_vars

\* FAILED->DONE was refused on a document that has a retry behind it and a
\* file path
C26_Witness ==
  /\ call.op = "update_status"
  /\ <<call.before, call.target>> = <<FAILED, DONE>>
  /\ call.outcome = "InvalidStateTransition"
  /\ db[call.id].status = FAILED
  /\ db[call.id].retry_count > 0
  /\ db[call.id].file_path # NoPath

\* C27: retry_document on a stored document succeeds exactly when it is FAILED
\* with retry_count < MAX_RETRIES, and then writes PENDING and retry_count + 1
\* and nothing else; FAILED with the budget used gives MaxRetriesExceeded, any
\* other status InvalidStateTransition, both without a write.  retry_count
\* changes in no other way, so it counts the successful retries.
C27_RetryDocument ==
  [][/\ (call'.op = "retry_document" /\ db[call'.id].source # NoSource)
          => LET id == call'.id
                 row == db[id]
             IN  IF row.status = FAILED /\ row.retry_count < MAX_RETRIES
                   THEN /\ call'.outcome = "ok"
                        /\ db' = [db EXCEPT ![id] =
                                   [row EXCEPT !.status = PENDING,
                                               !.retry_count = row.retry_count + 1]]
                 ELSE IF row.status = FAILED
                   THEN call'.outcome = "MaxRetriesExceeded" /\ db' = db
                 ELSE call'.outcome = "InvalidStateTransition" /\ db' = db
     /\ \A id \in DocIds :
          db'[id].retry_count # db[id].retry_count
            => (call'.op = "retry_document" /\ call'.id = id /\ call'.outcome = "ok")]_vars

\* the retry that uses up the budget has succeeded
C27_Witness ==
  /\ call.op = "retry_document"
  /\ call.outcome = "ok"
  /\ db[call.id].status = PENDING
  /\ db[call.id].retry_count = MAX_RETRIES

\* C28: a dequeue that pops an entry that cannot be parsed appends one
\* dead-letter entry with that payload and a reason, leaves PROCESSING and the
\* rest of MAIN as they were, and returns (None, None); a dequeue on an empty
\* MAIN returns (None, None) and changes no list.
C28_ParseFailure ==
  [][(drv' # drv) =>
       IF main = <<>>
         THEN /\ drv'.pc = "empty"
              /\ UNCHANGED <<main, processing, dlq>>
       ELSE (Last(main).doc \in Unparseable) =>
              /\ drv'.pc = "none"
              /\ main' = Front(main)
              /\ processing' = processing
              /\ (Len(dlq) < MaxDLQ) =>
                    /\ Len(dlq') = Len(dlq) + 1
                    /\ Last(dlq').payload = Last(main)
                    /\ Last(dlq').reason # "-"]_vars

\* the number of occurrences of x in list
Count(list, x) == Cardinality({k \in 1..Len(list) : list[k] = x})

\* C29: acknowledge(raw) takes one occurrence of raw out of PROCESSING when
\* there is one and otherwise changes nothing; every other entry of
\* PROCESSING, one of the same document included, and MAIN and the dead-letter
\* list stay as they were.
C29_AcknowledgeOnlyRaw ==
  [][(drv' # drv) =>
       /\ UNCHANGED <<main, dlq>>
       /\ \A k \in 1..Len(processing) :
            Count(processing', processing[k]) =
              IF processing[k] = drv.raw
                THEN Count(processing, processing[k]) - 1
                ELSE Count(processing, processing[k])
       /\ Len(processing') = IF Contains(processing, drv.raw)
                               THEN Len(processing) - 1 ELSE Len(processing)]_vars

\* worker w ends an iteration of its loop
IterationEnds(w) == wrk[w].pc \notin {"idle", "stopped"} /\ wrk'[w].pc = "idle"

\* C30: once running is false the worker starts no iteration, it ends the
\* one in progress and leaves run(), and at the end of that iteration the
\* entry it holds was acknowledged in that step or is still in PROCESSING.
C30_GracefulShutdown ==
  /\ [][\A w \in Workers :
          ~wrk[w].running =>
            /\ ~(wrk[w].pc = "idle" /\ wrk'[w].pc \notin {"idle", "stopped"})
            /\ wrk[w].pc = "stopped" => wrk'[w] = wrk[w]
            /\ IterationEnds(w) =>
                  \/ wrk[w].pc = "ack" /\ processing' = LREM(processing, wrk[w].raw)
                  \/ main' = main /\ processing' = processing
                       /\ Contains(processing, wrk[w].raw)]_vars
  /\ \A w \in {"w1"} : (~wrk[w].running) ~> (wrk[w].pc = "stopped")

\* the worker finished and acknowledged a job after it was told to stop, and
\* left run() with a job still waiting in MAIN
C30_Witness ==
  /\ wrk["w1"].pc = "stopped"
  /\ main # <<>>
  /\ processing = <<>>
  /\ \E id \in DocIds : db[id].status = DONE

\* C31: the worker acknowledges only from the success path, after it deleted
\* the retry counter of a document it brought to DONE; outside dequeue it
\* removes nothing else from PROCESSING; a failed attempt ends with the
\* counter of its document one higher, every list as it was, and no
\* acknowledgment.
C31_AckDiscipline ==
  [][\A w \in Workers :
       (wrk'[w].pc # wrk[w].pc) =>
         /\ (wrk'[w].pc = "ack") =>
               /\ wrk[w].pc = "del_retry"
               /\ wrk[w].err = "-"
               /\ db[DocOf(w)].status = DONE
               /\ retry'[DocOf(w)] = 0
         /\ (wrk[w].pc \notin {"idle", "deq_lrem", "deq_lpush", "ack"}) =>
               processing' = processing
         /\ (wrk[w].pc = "ack") => processing' = acknowledge(processing, wrk[w].raw)
         /\ (wrk'[w].pc = "incr_retry") => wrk[w].pc = "mark_failed_tx"
         /\ (wrk[w].pc = "incr_retry") =>
               /\ retry' = [retry EXCEPT ![DocOf(w)] = retry[DocOf(w)] + 1]
               /\ wrk'[w].pc = "idle"
               /\ UNCHANGED <<main, processing, dlq>>
         /\ (wrk[w].pc = "dlq") => UNCHANGED <<main, processing, retry>>]_vars

\* a failed attempt is over: the counter of the document is 1 and its
\* delivered entry is still in PROCESSING
C31_Witness ==
  \E id \in DocIds :
    /\ wrk["w1"].pc = "idle"
    /\ retry[id] = 1
    /\ db[id].status = FAILED
    /\ \E k \in 1..Len(processing) :
         processing[k].doc = id /\ processing[k].started # NoTs

\* C32: a step that moves a document from FAILED to PENDING raises its
\* retry_count by exactly 1.
C32_RetryCounted ==
  [][\A id \in DocIds :
       (db[id].status = FAILED /\ db'[id].status = PENDING)
         => db'[id].retry_count = db[id].retry_count + 1]_vars

\* an entry the claim wants skipped: well formed, with no started_at or a
\* young one
ToBeSkipped(e) == e.doc \in DocIds /\ ~Stale(e)

\* C33: a call of requeue_stale_jobs keeps every well-formed entry that has no
\* started_at or a young one in PROCESSING, in the same order, pushes nothing
\* for it and counts it in skipped; a malformed entry it finds is among the
\* items it removes and sends to the dead-letter list.
C33_SweepFrame ==
  [][/\ SelectSeq(processing', ToBeSkipped) = SelectSeq(processing, ToBeSkipped)
     /\ (main' # main \/ dlq' # dlq) => ~ToBeSkipped(swp["sw1"].cur)
     /\ (swp["sw1"].pc = "idle" /\ swp'["sw1"].pc = "loop") =>
          /\ Skipped(processing) = Len(SelectSeq(processing, ToBeSkipped))
          /\ \A k \in 1..Len(processing) :
               processing[k].doc \in Unparseable
                 => Contains(swp'["sw1"].items, processing[k])]_vars

\* C34: update_status writes at most the status of its row, update_file_path
\* and clear_file_path write at most its file_path and succeed on a stored
\* row in every status, and a rejected call of any of them writes nothing.
C34_MutatorFrame ==
  [][LET id == call'.id IN
     /\ (call'.op = "update_status") =>
           /\ db' = [db EXCEPT ![id].status = db'[id].status]
           /\ (call'.outcome = "ok") => db'[id].status = call'.target
     /\ (call'.op = "update_file_path") =>
           /\ db' = [db EXCEPT ![id].file_path = db'[id].file_path]
           /\ (db[id].source # NoSource) =>
                 (call'.outcome = "ok" /\ db'[id].file_path = PathOf(id))
     /\ (call'.op = "clear_file_path") =>
           /\ db' = [db EXCEPT ![id].file_path = db'[id].file_path]
           /\ (db[id].source # NoSource) =>
                 (call'.outcome = "ok" /\ db'[id].file_path = NoPath)
     /\ (call'.op \in {"update_status", "update_file_path", "clear_file_path"}
           /\ call'.outcome # "ok") => db' = db]_vars

\* update_status moved a document PROCESSING->FAILED that has a retry behind
\* it and a file path, and both are still there
C34_Witness ==
  /\ call.op = "update_status"
  /\ <<call.before, call.target>> = <<PROCESSING, FAILED>>
  /\ call.outcome = "ok"
  /\ db[call.id].status = FAILED
  /\ db[call.id].retry_count > 0
  /\ db[call.id].file_path # NoPath

\* C35: a document the worker marked FAILED after a failed attempt is claimed
\* again when its job is redelivered, and reaches DONE.
C35_RetrySucceeds ==
  \A id \in DocIds :
    /\ (db[id].status = FAILED) ~> (db[id].status = PROCESSING)
    /\ (db[id].status = FAILED) ~> (db[id].status = DONE)

\* C36: the entry dequeue puts in PROCESSING for an entry it popped carries
\* the retry_count of that entry.
C36_RetryCountSurvives ==
  [][(Len(drv'.deq) > Len(drv.deq)) =>
       /\ Head(processing').doc = Last(main).doc
       /\ Head(processing').rc = Last(main).rc
       /\ drv'.raw.rc = Last(main).rc]_vars

\* an entry of document id is in PROCESSING
InProcessing(id) == \E k \in 1..Len(processing) : processing[k].doc = id

\* C37: whenever an entry of a document is in PROCESSING, a moment comes when
\* none is (it was acknowledged, requeued or moved to the dead-letter list).
C37_NoZombie == \A id \in DocIds : InProcessing(id) ~> ~InProcessing(id)

\* C38: once an upload has returned success, the file it stored is read by
\* a processing attempt (its chunks reach the index) or the document becomes
\* FAILED; and the document is never DONE with that file unread.
C38_AcceptedUploadIsRead ==
  \A u \in UploadReqs :
    /\ [](upl[u].ret = "accepted"
           => <>(/\ upl[u].target \in DocIds
                 /\ \/ upl[u].target \in index
                    \/ db[upl[u].target].status = FAILED))
    /\ [](upl[u].ret = "accepted"
           => ~(db[upl[u].target].status = DONE /\ upl[u].target \notin index))

\* C39: a document that ingest created and committed as PENDING leaves
\* PENDING.
C39_NoOrphanedPending ==
  \A id \in DocIds :
    (Visible(id) /\ db[id].status = PENDING) ~> (db[id].status # PENDING)

\* C40: the main queue never holds more than QUEUE_MAX_LENGTH entries.
C40_BackpressureBound == Len(main) <= QUEUE_MAX_LENGTH

====
